---- MODULE Spec2Model ----
(***************************************************************************)
(* State machine of the Home component of frontend/pages/index.js: the     *)
(* React state (message, conversation, loading, uploadedPDFs, uploading),  *)
(* the two localStorage keys, the suspended send() call and the suspended  *)
(* handleFileUpload() loops.  Strings are sequences of one-character       *)
(* strings so that trim, concatenation and substring tests are computed.   *)
(***************************************************************************)
EXTENDS Integers, Sequences, FiniteSets, TLC

\* ---------------------------------------------------------------------------
\* Bounds of the exploration
\* ---------------------------------------------------------------------------
MaxSends == 2
MaxBatches == 2
MaxBatchLen == 2

\* ---------------------------------------------------------------------------
\* JavaScript values
\* ---------------------------------------------------------------------------
\* undefined and null; both differ from every string (strings hold only
\* one-character elements)
JSUndefined == <<"%undefined%">>
JSNull == <<"%null%">>

IsSpace(ch) == ch \in {" ", "\n", "\t"}

RECURSIVE TrimStart(_)
TrimStart(s) ==
  IF s = <<>> THEN <<>>
  ELSE IF IsSpace(Head(s)) THEN TrimStart(Tail(s)) ELSE s

RECURSIVE TrimEnd(_)
TrimEnd(s) ==
  IF s = <<>> THEN <<>>
  ELSE IF IsSpace(s[Len(s)]) THEN TrimEnd(SubSeq(s, 1, Len(s) - 1)) ELSE s

\* whitespace taken off the front only
TrimLeadingOnly(s) == TrimStart(s)

\* String.prototype.trim
Trim(s) == TrimEnd(TrimStart(s))

\* String.prototype.includes
Includes(s, sub) ==
  \E i \in 0..(Len(s) - Len(sub)) : SubSeq(s, i + 1, i + Len(sub)) = sub

Digit(d) == <<"0", "1", "2", "3", "4", "5", "6", "7", "8", "9">>[d + 1]

\* decimal rendering of a non-negative integer inside a template literal
RECURSIVE NumberToString(_)
NumberToString(n) ==
  IF n < 10 THEN <<Digit(n)>>
  ELSE NumberToString(n \div 10) \o <<Digit(n % 10)>>

\* Array.prototype.join
RECURSIVE Join(_, _)
Join(parts, sep) ==
  IF parts = <<>> THEN <<>>
  ELSE IF Len(parts) = 1 THEN parts[1]
  ELSE parts[1] \o sep \o Join(Tail(parts), sep)

\* reading obj.key: undefined when the property is missing
Get(obj, key) == IF key \in DOMAIN obj THEN obj[key] ELSE JSUndefined

\* a falsy string operand of || (undefined or the empty string)
Falsy(v) == v = JSUndefined \/ v = <<>>

\* ---------------------------------------------------------------------------
\* String literals of the source
\* ---------------------------------------------------------------------------
S_pdfHeaderOpen == <<"\n", "=", "=", "=", " ", "P", "D", "F", " ">>
S_colon == <<":", " ">>
S_pdfHeaderClose == <<" ", "=", "=", "=", "\n">>
S_blankLine == <<"\n", "\n">>
S_errorPrefix == <<"E", "r", "r", "o", "r", ":", " ">>
S_failedPrefix ==
  <<"R", "e", "q", "u", "e", "s", "t", " ", "f", "a", "i", "l", "e", "d", ":", " ">>

AlertMax == "Maximum 5 PDFs allowed. Please remove some files first."
AlertOnlyPDF == "Please upload only PDF files"
AlertFailed == "Failed to upload"
AlertError == "Error uploading"
NoAlert == "none"

\* ---------------------------------------------------------------------------
\* JSON
\* ---------------------------------------------------------------------------
\* a localStorage entry: missing, text that JSON.parse rejects, JSON text of
\* a value that is not an array, or the JSON text of an array
Absent == [kind |-> "absent"]
Malformed == [kind |-> "malformed"]
NonArray == [kind |-> "nonarray"]
JSONText(val) == [kind |-> "json", val |-> val]

\* a turn written with its role only
StringifyTurnRoleOnly(t) == [role |-> t.role]

\* JSON.stringify of one turn: a property whose value is undefined is dropped
StringifyTurn(t) == IF Get(t, "text") = JSUndefined THEN [role |-> t.role] ELSE t

\* JSON.stringify of an array of turns
StringifyTurns(turns) == [i \in 1..Len(turns) |-> StringifyTurn(turns[i])]

\* JSON.stringify(conversation) / JSON.stringify(uploadedPDFs) as stored
StringifyConversation(turns) == JSONText(StringifyTurns(turns))
StringifyPDFs(pdfs) == JSONText(pdfs)

\* JSON.stringify of a response body object with string properties
Quote(s) == <<"\"">> \o s \o <<"\"">>
Property(data, key, chars) ==
  IF key \in DOMAIN data THEN <<Quote(chars) \o <<":">> \o Quote(data[key])>> ELSE <<>>
StringifyData(data) ==
  <<"{">> \o Join(Property(data, "reply", <<"r", "e", "p", "l", "y">>)
                  \o Property(data, "detail", <<"d", "e", "t", "a", "i", "l">>),
                  <<",">>) \o <<"}">>

\* ---------------------------------------------------------------------------
\* Inputs
\* ---------------------------------------------------------------------------
S_Hello == <<"H", "e", "l", "l", "o">>
S_Why == <<"W", "h", "y", "?">>
S_HiBang == <<"H", "i", "!">>
S_boom == <<"b", "o", "o", "m">>
S_netError == <<"F", "a", "i", "l", "e", "d", " ", "t", "o", " ", "f", "e", "t", "c", "h">>
S_syntaxError == <<"U", "n", "e", "x", "p", "e", "c", "t", "e", "d", " ", "e", "n", "d">>

\* what the user may type into the textarea
Messages == {<<>>, <<" ">>, <<" ">> \o S_Hello \o <<"\n">>, S_Why}

EmptyObject == <<>>

\* outcomes of fetch('/chat') followed by res.json()
ChatOutcomes ==
  { [fetch |-> "resolved", ok |-> TRUE, status |-> 200, json |-> "parsed",
     data |-> [reply |-> S_HiBang]],
    [fetch |-> "resolved", ok |-> TRUE, status |-> 200, json |-> "parsed",
     data |-> EmptyObject],
    [fetch |-> "resolved", ok |-> TRUE, status |-> 200, json |-> "throws",
     error |-> S_syntaxError],
    [fetch |-> "resolved", ok |-> FALSE, status |-> 500, json |-> "parsed",
     data |-> [detail |-> S_boom]],
    [fetch |-> "resolved", ok |-> FALSE, status |-> 500, json |-> "parsed",
     data |-> EmptyObject],
    [fetch |-> "resolved", ok |-> FALSE, status |-> 500, json |-> "throws",
     error |-> S_syntaxError],
    [fetch |-> "rejected", error |-> S_netError] }

A_name == <<"A", ".", "p", "d", "f">>
B_name == <<"B", ".", "p", "d", "f">>
N_name == <<"n", ".", "t", "x", "t">>
A_text == <<"t", "e", "x", "t", "A">>
B_text == <<"t", "e", "x", "t", "B">>

\* the files a user may pick or drop; content is what extraction returns
FileA == [name |-> A_name, type |-> "application/pdf", size |-> 1, content |-> A_text]
FileB == [name |-> B_name, type |-> "application/pdf", size |-> 2, content |-> B_text]
FileN == [name |-> N_name, type |-> "text/plain", size |-> 3, content |-> <<>>]
Files == {FileA, FileB, FileN}

\* what one selection or drop offers: up to MaxBatchLen different files
FileLists ==
  UNION {{list \in [1..n -> Files] :
            \A i, j \in 1..n : list[i] = list[j] => i = j} : n \in 1..MaxBatchLen}

DocA == [filename |-> A_name, text |-> A_text, size |-> 1]
DocB == [filename |-> B_name, text |-> B_text, size |-> 2]

\* outcomes of fetch('/upload-pdf') followed by res.json()
UploadOutcomes == {"ok", "status", "throws"}

\* what an earlier session may have left under the two keys
StoredConversations ==
  { Absent, Malformed, NonArray,
    StringifyConversation(<<[role |-> "user", text |-> S_Why],
                            [role |-> "error", text |-> S_errorPrefix \o S_boom]>>) }
StoredPDFs ==
  { Absent, Malformed, NonArray,
    StringifyPDFs(<<DocA, DocB>>) }

\* ---------------------------------------------------------------------------
\* State
\* ---------------------------------------------------------------------------
VARIABLES
  phase,           \* "unmounted", "mounted" or "crashed" (a render threw)
  message,         \* useState('')
  conversation,    \* useState([])
  loading,         \* useState(false)
  uploadedPDFs,    \* useState([])
  uploading,       \* useState(false)
  lsConversation,  \* localStorage entry 'rezumai_conversation'
  lsPDFs,          \* localStorage entry 'rezumai_pdfs'
  sendCall,        \* the send() call suspended at its await, with its locals
  uploads,         \* the handleFileUpload() calls suspended in their loops
  lastOp,          \* history: the handler that ran last and what it showed or issued
  log,             \* history: the turns in the order they were appended
  cleared,         \* history: clearConversation has run since the mount
  clearedInFlight, \* history: clearConversation ran during the pending send
  nSends,          \* number of accepted sends
  inFlight,        \* number of /chat requests issued and not yet settled
  nRequests,       \* number of /chat requests issued
  nBatches         \* number of handleFileUpload calls

vars == <<phase, message, conversation, loading, uploadedPDFs, uploading,
          lsConversation, lsPDFs, sendCall, uploads, lastOp, log, cleared,
          clearedInFlight, nSends, inFlight, nRequests, nBatches>>

chatVars == <<message, conversation, loading, lsConversation, sendCall, log,
              cleared, clearedInFlight, nSends, inFlight, nRequests>>
docVars == <<uploadedPDFs, uploading, lsPDFs, uploads, nBatches>>

NoCall == [state |-> "none"]

\* lastOp names send and handleFileUpload by how they were started, with the
\* number of files offered, the alert shown and the requests issued; the
\* handlers that show and issue nothing leave the same record
Op(name, n, alert, requests) ==
  [op |-> name, n |-> n, alert |-> alert, requests |-> requests]
Quiet == Op("other", 0, NoAlert, 0)
Settled(outcome) == [op |-> "sendSettle", n |-> 0, alert |-> NoAlert,
                     requests |-> 0, outcome |-> outcome]

Init ==
  /\ phase = "unmounted"
  /\ message = <<>>
  /\ conversation = <<>>
  /\ loading = FALSE
  /\ uploadedPDFs = <<>>
  /\ uploading = FALSE
  /\ lsConversation \in StoredConversations
  /\ lsPDFs \in StoredPDFs
  /\ sendCall = NoCall
  /\ uploads = <<>>
  /\ lastOp = Quiet
  /\ log = <<>>
  /\ cleared = FALSE
  /\ clearedInFlight = FALSE
  /\ nSends = 0
  /\ inFlight = 0
  /\ nRequests = 0
  /\ nBatches = 0

\* ---------------------------------------------------------------------------
\* Effects
\* ---------------------------------------------------------------------------
\* the entry the load effect hands to the state setter: the parsed array, or
\* the state kept when the key is missing or JSON.parse throws
LoadEntry(entry, current) ==
  IF entry.kind = "json" THEN entry.val ELSE current

\* the save effect on [conversation] without its length guard
SaveConversationEffectUnguarded(conv, entry) == StringifyConversation(conv)

\* the save effect on [conversation]
SaveConversationEffect(conv, entry) ==
  IF Len(conv) > 0 THEN StringifyConversation(conv) ELSE entry

\* the save effect on [uploadedPDFs] without its else branch
SavePDFsEffectNoRemove(pdfs, entry) ==
  IF Len(pdfs) > 0 THEN StringifyPDFs(pdfs) ELSE entry

\* the save effect on [uploadedPDFs]
SavePDFsEffect(pdfs, entry) ==
  IF Len(pdfs) > 0 THEN StringifyPDFs(pdfs) ELSE Absent

\* First render with the initial state: the load effect reads both keys, the
\* save effects run on the empty arrays (the PDF one removes its key), then
\* the loaded values are rendered and the save effects run again.  A loaded
\* value that is not an array makes that render throw, so that nothing of it
\* is committed and no effect runs after it.
MountResult(entryConversation, entryPDFs) ==
  IF entryConversation.kind = "nonarray" \/ entryPDFs.kind = "nonarray"
  THEN [phase |-> "crashed",
        conversation |-> <<>>,
        uploadedPDFs |-> <<>>,
        lsConversation |-> entryConversation,
        lsPDFs |-> Absent]
  ELSE LET conv == LoadEntry(entryConversation, <<>>)
           pdfs == LoadEntry(entryPDFs, <<>>)
       IN [phase |-> "mounted",
           conversation |-> conv,
           uploadedPDFs |-> pdfs,
           lsConversation |-> SaveConversationEffect(conv, entryConversation),
           lsPDFs |-> SavePDFsEffect(pdfs, Absent)]

\* the page is opened
Mount ==
  /\ phase = "unmounted"
  /\ LET result == MountResult(lsConversation, lsPDFs)
     IN /\ phase' = result.phase
        /\ conversation' = result.conversation
        /\ uploadedPDFs' = result.uploadedPDFs
        /\ lsConversation' = result.lsConversation
        /\ lsPDFs' = result.lsPDFs
        /\ log' = result.conversation
  /\ lastOp' = Quiet
  /\ UNCHANGED <<message, loading, uploading, sendCall, uploads, cleared,
                 clearedInFlight, nSends, inFlight, nRequests, nBatches>>

\* ---------------------------------------------------------------------------
\* Chat
\* ---------------------------------------------------------------------------
\* the textarea never disabled
TextareaNeverDisabled == FALSE

\* the disabled prop of the textarea
TextareaDisabled == loading

\* the disabled prop of the Send button
SendButtonDisabled == loading \/ Trim(message) = <<>>

\* textarea onChange; the textarea is disabled while loading
SetMessage(v) ==
  /\ phase = "mounted"
  /\ ~TextareaDisabled
  /\ message' = v
  /\ lastOp' = Quiet
  /\ UNCHANGED <<phase, conversation, loading, lsConversation, sendCall, log,
                 cleared, clearedInFlight, nSends, inFlight, nRequests>>
  /\ UNCHANGED docVars

\* the pdf_context numbered from the 0-based array index
pdfContextZeroBased(pdfs) ==
  IF Len(pdfs) > 0
  THEN Join([idx \in 1..Len(pdfs) |->
               S_pdfHeaderOpen \o NumberToString(idx - 1) \o S_colon
                 \o pdfs[idx].filename \o S_pdfHeaderClose \o pdfs[idx].text],
            S_blankLine)
  ELSE JSNull

\* the pdf_context left undefined for an empty list
pdfContextUndefined(pdfs) ==
  IF Len(pdfs) > 0
  THEN Join([idx \in 1..Len(pdfs) |->
               S_pdfHeaderOpen \o NumberToString(idx) \o S_colon
                 \o pdfs[idx].filename \o S_pdfHeaderClose \o pdfs[idx].text],
            S_blankLine)
  ELSE JSUndefined

\* the pdf_context of the request
pdfContext(pdfs) ==
  IF Len(pdfs) > 0
  THEN Join([idx \in 1..Len(pdfs) |->
               S_pdfHeaderOpen \o NumberToString(idx) \o S_colon
                 \o pdfs[idx].filename \o S_pdfHeaderClose \o pdfs[idx].text],
            S_blankLine)
  ELSE JSNull

\* a history cut down to its two most recent turns
ConversationHistoryLastTwo(conv) ==
  SubSeq(conv, IF Len(conv) > 2 THEN Len(conv) - 1 ELSE 1, Len(conv))

\* the conversation_history of the request
ConversationHistory(conv) == conv

\* JSON.stringify of the request object: a property whose value is undefined
\* is dropped, one whose value is null is kept
StringifyBody(body) ==
  [k \in {key \in DOMAIN body :
            key = "conversation_history" \/ body[key] # JSUndefined} |-> body[k]]

\* the body of the POST to /chat, as serialised
RequestBody(userMessage, conv, pdfs) ==
  StringifyBody([message |-> userMessage,
                 conversation_history |-> StringifyTurns(ConversationHistory(conv)),
                 pdf_context |-> pdfContext(pdfs)])

\* the conversation set without the user turn
newConversationWithoutUserTurn(conv, userMessage) == conv

\* the user turn put in front of the conversation
newConversationPrepends(conv, userMessage) ==
  <<[role |-> "user", text |-> userMessage]>> \o conv

\* [...conversation, { role: 'user', text: userMessage }]
newConversationOf(conv, userMessage) ==
  Append(conv, [role |-> "user", text |-> userMessage])

\* send(): returns at once on a blank message; otherwise appends the user
\* turn, issues the request and suspends at the await
send(via) ==
  IF Trim(message) = <<>>
  THEN /\ lastOp' = Op(via, 0, NoAlert, 0)
       /\ UNCHANGED chatVars
  ELSE LET userMessage == Trim(message)
           newConversation == newConversationOf(conversation, userMessage)
       IN /\ nSends < MaxSends
          /\ loading' = TRUE
          /\ message' = <<>>
          /\ conversation' = newConversation
          /\ lsConversation' = SaveConversationEffect(newConversation, lsConversation)
          /\ sendCall' = [state |-> "awaiting",
                          userMessage |-> userMessage,
                          conversation |-> conversation,
                          uploadedPDFs |-> uploadedPDFs,
                          newConversation |-> newConversation,
                          request |-> RequestBody(userMessage, conversation,
                                                  uploadedPDFs)]
          /\ log' = Append(log, [role |-> "user", text |-> userMessage])
          /\ clearedInFlight' = FALSE
          /\ nSends' = nSends + 1
          /\ inFlight' = inFlight + 1
          /\ nRequests' = nRequests + 1
          /\ lastOp' = Op(via, 0, NoAlert, 1)
          /\ UNCHANGED cleared

\* the Send button: disabled while loading or when the message is blank
SendClick ==
  /\ phase = "mounted"
  /\ ~SendButtonDisabled
  /\ send("sendClick")
  /\ UNCHANGED phase
  /\ UNCHANGED docVars

\* handleKeyPress with Enter and no Shift, in the textarea (disabled while
\* loading)
handleKeyPress ==
  /\ phase = "mounted"
  /\ ~TextareaDisabled
  /\ send("handleKeyPress")
  /\ UNCHANGED phase
  /\ UNCHANGED docVars

\* the result turn with the cause left out of the error text
ResultTurnNoDetail(outcome) ==
  IF outcome.fetch = "rejected" \/ outcome.json = "throws"
  THEN [role |-> "error", text |-> S_failedPrefix]
  ELSE IF outcome.ok
       THEN [role |-> "model", text |-> Get(outcome.data, "reply")]
       ELSE [role |-> "error", text |-> S_errorPrefix]

\* the result turn with the reply stored under the user role
ResultTurnAsUser(outcome) ==
  IF outcome.fetch = "rejected" \/ outcome.json = "throws"
  THEN [role |-> "error", text |-> S_failedPrefix \o outcome.error]
  ELSE IF outcome.ok
       THEN [role |-> "user", text |-> Get(outcome.data, "reply")]
       ELSE [role |-> "error",
             text |-> S_errorPrefix \o
                        (IF Falsy(Get(outcome.data, "detail"))
                         THEN StringifyData(outcome.data)
                         ELSE outcome.data.detail)]

\* the turn that the continuation of send() appends for an outcome
ResultTurn(outcome) ==
  IF outcome.fetch = "rejected" \/ outcome.json = "throws"
  THEN [role |-> "error", text |-> S_failedPrefix \o outcome.error]
  ELSE IF outcome.ok
       THEN [role |-> "model", text |-> Get(outcome.data, "reply")]
       ELSE [role |-> "error",
             text |-> S_errorPrefix \o
                        (IF Falsy(Get(outcome.data, "detail"))
                         THEN StringifyData(outcome.data)
                         ELSE outcome.data.detail)]

\* the settled array built on the captured conversation, losing the user turn
SettledConversationDropsUser(call, outcome) ==
  Append(call.conversation, ResultTurn(outcome))

\* the array handed to setConversation when the request settles
SettledConversation(call, outcome) ==
  Append(call.newConversation, ResultTurn(outcome))

\* the request issued once more when the call threw
RequestsOnSettleRetry(outcome) ==
  IF outcome.fetch = "rejected" THEN 1 ELSE 0

\* the /chat requests issued by the branches after the await: none of the
\* three calls fetch
RequestsOnSettle(outcome) == 0

\* loading left set when the call throws, as without the finally block
LoadingOnlyAfterTry(outcome) ==
  outcome.fetch = "rejected" \/ outcome.json = "throws"

\* the value of loading after the finally block
LoadingFinally(outcome) == FALSE

\* send() resumes: try / catch / finally
SendSettle(outcome) ==
  /\ phase = "mounted"
  /\ sendCall.state = "awaiting"
  /\ LET conv == SettledConversation(sendCall, outcome)
     IN /\ conversation' = conv
        /\ lsConversation' = SaveConversationEffect(conv, lsConversation)
  /\ loading' = LoadingFinally(outcome)
  /\ sendCall' = NoCall
  /\ inFlight' = inFlight - 1
  /\ nRequests' = nRequests + RequestsOnSettle(outcome)
  /\ log' = Append(log, ResultTurn(outcome))
  /\ lastOp' = Settled(outcome)
  /\ UNCHANGED <<phase, message, cleared, clearedInFlight, nSends>>
  /\ UNCHANGED docVars

\* the Clear Chat button: disabled when the conversation is empty
clearConversation ==
  /\ phase = "mounted"
  /\ Len(conversation) # 0
  /\ conversation' = <<>>
  /\ lsConversation' = SaveConversationEffect(<<>>, Absent)
  /\ cleared' = TRUE
  /\ clearedInFlight' = (sendCall.state = "awaiting")
  /\ lastOp' = Quiet
  /\ UNCHANGED <<phase, message, loading, sendCall, log, nSends, inFlight,
                 nRequests>>
  /\ UNCHANGED docVars

\* ---------------------------------------------------------------------------
\* Documents
\* ---------------------------------------------------------------------------
\* the count check with the limit off by one
OverCapacityOffByOne(count, offered) == count + offered > 6

\* the count check at the head of handleFileUpload
OverCapacity(count, offered) == count + offered > 5

\* the filter on the MIME type
pdfFiles(fileArray) == SelectSeq(fileArray, LAMBDA f : f.type = "application/pdf")

\* the count check made on the PDF files only
CountedFilesAfterFilter(fileArray) == pdfFiles(fileArray)

\* the files whose number the count check adds: fileArray, before the filter
CountedFiles(fileArray) == fileArray

\* what a handleFileUpload call leaves in lastOp: the number of files offered,
\* how many of them are PDF files, the alert shown and the requests issued
Offered(via, fileArray, alert, requests) ==
  [op |-> via, n |-> Len(fileArray), alert |-> alert, requests |-> requests,
   pdfs |-> Len(pdfFiles(fileArray))]

\* handleFileUpload(files) up to its first await: count check, type filter,
\* setUploading(true) and the request for the first PDF file
handleFileUpload(fileArray, via) ==
  /\ nBatches < MaxBatches
  /\ nBatches' = nBatches + 1
  /\ IF OverCapacity(Len(uploadedPDFs), Len(CountedFiles(fileArray)))
     THEN /\ lastOp' = Offered(via, fileArray, AlertMax, 0)
          /\ UNCHANGED <<uploadedPDFs, uploading, lsPDFs, uploads>>
     ELSE IF Len(pdfFiles(fileArray)) = 0
          THEN /\ lastOp' = Offered(via, fileArray, AlertOnlyPDF, 0)
               /\ UNCHANGED <<uploadedPDFs, uploading, lsPDFs, uploads>>
          ELSE /\ uploading' = TRUE
               /\ uploads' = Append(uploads, pdfFiles(fileArray))
               /\ lastOp' = Offered(via, fileArray, NoAlert, 1)
               /\ UNCHANGED <<uploadedPDFs, lsPDFs>>

\* onChange of the file input: disabled while uploading or at five documents
FileInputChange(files) ==
  /\ phase = "mounted"
  /\ ~(uploading \/ Len(uploadedPDFs) >= 5)
  /\ handleFileUpload(files, "fileInputChange")
  /\ UNCHANGED phase
  /\ UNCHANGED chatVars

\* handleDrop: the drop zone is never disabled
handleDrop(files) ==
  /\ phase = "mounted"
  /\ Len(files) > 0
  /\ handleFileUpload(files, "handleDrop")
  /\ UNCHANGED phase
  /\ UNCHANGED chatVars

\* the document appended for a file whose upload succeeded
UploadedDocument(file) ==
  [filename |-> file.name, text |-> file.content, size |-> file.size]

\* the functional update of setUploadedPDFs in the loop
AppendDocument(prev, file) == Append(prev, UploadedDocument(file))

RemoveAt(seq, i) == SubSeq(seq, 1, i - 1) \o SubSeq(seq, i + 1, Len(seq))

\* a loop that a thrown error leaves, as with the try around the for
RemainingFilesUnlessThrown(files, outcome) ==
  IF outcome = "throws" THEN <<>> ELSE Tail(files)

\* the files the for loop still has to upload once the request for the first
\* of them has settled: the try / catch is inside the loop body
RemainingFiles(files, outcome) == Tail(files)

\* the i-th suspended handleFileUpload resumes with the outcome of the
\* request for its current file, then either issues the request for the
\* next file or leaves the loop and calls setUploading(false)
UploadSettle(i, outcome) ==
  /\ phase = "mounted"
  /\ i \in 1..Len(uploads)
  /\ LET file == Head(uploads[i])
         rest == RemainingFiles(uploads[i], outcome)
     IN /\ IF outcome = "ok"
           THEN /\ uploadedPDFs' = AppendDocument(uploadedPDFs, file)
                /\ lsPDFs' = SavePDFsEffect(uploadedPDFs', lsPDFs)
           ELSE UNCHANGED <<uploadedPDFs, lsPDFs>>
        /\ IF rest = <<>>
           THEN /\ uploading' = FALSE
                /\ uploads' = RemoveAt(uploads, i)
           ELSE /\ uploads' = [uploads EXCEPT ![i] = rest]
                /\ UNCHANGED uploading
        /\ lastOp' = Op("uploadSettle", 0,
                        CASE outcome = "ok" -> NoAlert
                          [] outcome = "status" -> AlertFailed
                          [] OTHER -> AlertError,
                        IF rest = <<>> THEN 0 ELSE 1)
  /\ UNCHANGED <<phase, nBatches>>
  /\ UNCHANGED chatVars

\* the filter keeping every document but the first
RemoveIndexDropsFirst(prev, index) ==
  SelectSeq([i \in 1..Len(prev) |-> [pos |-> i - 1, pdf |-> prev[i]]],
            LAMBDA e : e.pos # 0)

\* the filter of removePDF; index is the 0-based position
RemoveIndex(prev, index) ==
  SelectSeq([i \in 1..Len(prev) |-> [pos |-> i - 1, pdf |-> prev[i]]],
            LAMBDA e : e.pos # index)

Pdfs(entries) == [i \in 1..Len(entries) |-> entries[i].pdf]

\* the indexes removePDF is called with: those of the remove buttons, and the
\* one past the end, the last index of a list that was one document longer
RemoveIndexes == 0..Len(uploadedPDFs)

\* removePDF(index): a functional update, then the save effect
removePDF(index) ==
  /\ phase = "mounted"
  /\ index \in RemoveIndexes
  /\ uploadedPDFs' = Pdfs(RemoveIndex(uploadedPDFs, index))
  /\ lsPDFs' = SavePDFsEffect(uploadedPDFs', lsPDFs)
  /\ lastOp' = [op |-> "removePDF", n |-> 0, alert |-> NoAlert, requests |-> 0,
                index |-> index]
  /\ UNCHANGED <<phase, uploading, uploads, nBatches>>
  /\ UNCHANGED chatVars

\* Clear All PDFs emptying the whole of localStorage
clearAllPDFsClearsStorage ==
  /\ phase = "mounted"
  /\ Len(uploadedPDFs) > 0
  /\ uploadedPDFs' = <<>>
  /\ lsPDFs' = SavePDFsEffect(<<>>, Absent)
  /\ lsConversation' = Absent
  /\ lastOp' = Quiet
  /\ UNCHANGED <<phase, uploading, uploads, nBatches>>
  /\ UNCHANGED <<message, conversation, loading, sendCall, log, cleared,
                 clearedInFlight, nSends, inFlight, nRequests>>

\* the Clear All PDFs button, rendered when the list is not empty
clearAllPDFs ==
  /\ phase = "mounted"
  /\ Len(uploadedPDFs) > 0
  /\ uploadedPDFs' = <<>>
  /\ lsPDFs' = SavePDFsEffect(<<>>, Absent)
  /\ lastOp' = Quiet
  /\ UNCHANGED <<phase, uploading, uploads, nBatches>>
  /\ UNCHANGED chatVars

\* ---------------------------------------------------------------------------
\* Specification
\* ---------------------------------------------------------------------------
Next ==
  \/ Mount
  \/ \E v \in Messages : SetMessage(v)
  \/ SendClick
  \/ handleKeyPress
  \/ \E outcome \in ChatOutcomes : SendSettle(outcome)
  \/ clearConversation
  \/ \E files \in FileLists : FileInputChange(files)
  \/ \E files \in FileLists : handleDrop(files)
  \/ \E i \in 1..MaxBatches, outcome \in UploadOutcomes : UploadSettle(i, outcome)
  \/ \E index \in RemoveIndexes : removePDF(index)
  \/ clearAllPDFs

\* the whole component; its state space is the product of the two below
Spec == Init /\ [][Next]_vars

\* The chat handlers and the document handlers work on disjoint state; send()
\* only reads uploadedPDFs.  The chat behaviours keep the handler that
\* empties the document list, the document behaviours leave the chat idle.
ChatNext ==
  \/ Mount
  \/ \E v \in Messages : SetMessage(v)
  \/ SendClick
  \/ handleKeyPress
  \/ \E outcome \in ChatOutcomes : SendSettle(outcome)
  \/ clearConversation
  \/ clearAllPDFs

ChatSpec == Init /\ [][ChatNext]_vars

\* the chat side when every /chat call settles, with one outcome of each
\* kind: a reply, a non-ok status with a detail, a fetch that rejects
SettlingOutcomes ==
  {outcome \in ChatOutcomes :
     \/ outcome.fetch = "rejected"
     \/ (outcome.json = "parsed" /\ outcome.data # EmptyObject)}

ChatFairNext ==
  \/ Mount
  \/ \E v \in Messages : SetMessage(v)
  \/ SendClick
  \/ handleKeyPress
  \/ \E outcome \in SettlingOutcomes : SendSettle(outcome)
  \/ clearConversation
  \/ clearAllPDFs

ChatFairSpec ==
  /\ Init
  /\ [][ChatFairNext]_vars
  /\ WF_vars(\E outcome \in SettlingOutcomes : SendSettle(outcome))

DocNext ==
  \/ Mount
  \/ \E files \in FileLists : FileInputChange(files)
  \/ \E files \in FileLists : handleDrop(files)
  \/ \E i \in 1..MaxBatches, outcome \in UploadOutcomes : UploadSettle(i, outcome)
  \/ \E index \in RemoveIndexes : removePDF(index)
  \/ clearAllPDFs

DocInit == Init /\ lsConversation = CHOOSE e \in StoredConversations : e.kind = "json"

DocSpec == DocInit /\ [][DocNext]_vars

\* Both sides at once, each with few inputs: one message, a reply or a
\* rejected fetch, one PDF file picked or dropped, starting from two stored
\* documents and no stored conversation.
FrameOutcomes ==
  {outcome \in ChatOutcomes :
     \/ outcome.fetch = "rejected"
     \/ (outcome.ok /\ outcome.json = "parsed" /\ "reply" \in DOMAIN outcome.data)}

FrameNext ==
  \/ Mount
  \/ SetMessage(S_Why)
  \/ SendClick
  \/ handleKeyPress
  \/ \E outcome \in FrameOutcomes : SendSettle(outcome)
  \/ clearConversation
  \/ FileInputChange(<<FileA>>)
  \/ handleDrop(<<FileA>>)
  \/ \E i \in 1..MaxBatches, outcome \in UploadOutcomes : UploadSettle(i, outcome)
  \/ \E index \in RemoveIndexes : removePDF(index)
  \/ clearAllPDFs

FrameInit ==
  /\ Init
  /\ lsConversation = Absent
  /\ lsPDFs = StringifyPDFs(<<DocA, DocB>>)

FrameSpec == FrameInit /\ [][FrameNext]_vars

\* ---------------------------------------------------------------------------
\* Properties
\* ---------------------------------------------------------------------------
Last(seq) == seq[Len(seq)]
Idle == phase = "mounted" /\ sendCall.state = "none"
Awaiting == phase = "mounted" /\ sendCall.state = "awaiting"

\* a step in which send() suspends at its await / resumes from it
SendStep == sendCall.state = "none" /\ sendCall'.state = "awaiting"
SettleStep == sendCall.state = "awaiting" /\ sendCall'.state = "none"

\* a step in which handleFileUpload ran with lastOp'.n files offered
UploadAttempt == nBatches' = nBatches + 1

UserTurn(text) == [role |-> "user", text |-> text]

\* C1: in every reachable state the Document Store holds at most 5 documents
C1_AtMostFiveDocuments == Len(uploadedPDFs) <= 5

\* C2: with no clearConversation since the mount, once every send has
\* completed the conversation is the turns in the order they were appended:
\* each send's user turn directly followed by that send's result turn
C2_ChronologicalOrder == (Idle /\ ~cleared) => conversation = log

C2_TwoSendsCompleted ==
  /\ Idle /\ ~cleared /\ nSends >= 2
  /\ Len(conversation) >= 4
  /\ conversation[Len(conversation) - 1].role = "user"
  /\ conversation[Len(conversation) - 3].role = "user"
  /\ conversation[Len(conversation) - 1] # conversation[Len(conversation) - 3]

\* the cause carried by a failed completion call: the exception message, the
\* detail of the body, or the body itself when it has no detail
FailureDetail(outcome) ==
  IF outcome.fetch = "rejected" \/ outcome.json = "throws" THEN outcome.error
  ELSE IF "detail" \in DOMAIN outcome.data THEN outcome.data.detail
  ELSE <<"{", "}">>

Failed(outcome) == outcome.fetch = "rejected" \/ ~outcome.ok

CountRole(turns, role) == Cardinality({i \in 1..Len(turns) : turns[i].role = role})

\* C3: a send whose completion call fails (non-success status or a thrown
\* error) leaves the conversation it was issued on followed by its user turn,
\* unaltered, and directly after it exactly one error turn whose text includes
\* the failure detail; no assistant (role "model") turn is added
C3_FailureAddsOneErrorTurn ==
  [][(SettleStep /\ Failed(lastOp'.outcome)) =>
       /\ Len(conversation') = Len(sendCall.conversation) + 2
       /\ SubSeq(conversation', 1, Len(sendCall.conversation)) = sendCall.conversation
       /\ conversation'[Len(conversation') - 1] = UserTurn(sendCall.userMessage)
       /\ Last(conversation').role = "error"
       /\ Includes(Last(conversation').text, FailureDetail(lastOp'.outcome))
       /\ CountRole(conversation', "error") = CountRole(sendCall.conversation, "error") + 1
       /\ CountRole(conversation', "model") = CountRole(sendCall.conversation, "model")
    ]_vars

C3_FailedSendSettled ==
  /\ Idle
  /\ lastOp.op = "sendSettle"
  /\ lastOp.outcome.fetch = "resolved" /\ lastOp.outcome.status = 500
  /\ Last(conversation).role = "error"
  /\ Includes(Last(conversation).text, S_boom)

\* C4: a handleFileUpload call for which the current count plus the number of
\* files offered exceeds 5 shows the maximum alert, issues no upload request
\* and leaves the document list, its stored copy and the running uploads as
\* they were
C4_CapacityRejected ==
  [][(UploadAttempt /\ Len(uploadedPDFs) + lastOp'.n > 5) =>
       /\ lastOp'.alert = AlertMax
       /\ lastOp'.requests = 0
       /\ UNCHANGED <<uploadedPDFs, lsPDFs, uploads, uploading>>
    ]_vars

C4_RejectedAtCapacity ==
  /\ lastOp.alert = AlertMax
  /\ Len(uploadedPDFs) > 0
  /\ Len(uploadedPDFs) + lastOp.n > 5
  /\ lsPDFs = StringifyPDFs(uploadedPDFs)

\* C5: the conversation_history of the outbound request never holds a turn
\* with role error
C5_NoErrorTurnUpstream ==
  Awaiting =>
    \A i \in 1..Len(sendCall.request.conversation_history) :
      sendCall.request.conversation_history[i].role # "error"

\* C6: when clearConversation ran while the send was pending, the settling
\* send appends its result turn to the cleared conversation, so the
\* conversation and its stored copy hold that turn and none of the turns from
\* before the clear
C6_LateReplyOnClearedHistory ==
  [][(SettleStep /\ clearedInFlight) =>
       /\ Last(conversation').role \in {"model", "error"}
       /\ conversation' = Append(conversation, Last(conversation'))
       /\ lsConversation' = StringifyConversation(conversation')
    ]_vars

WellFormedSuccess(outcome) ==
  /\ outcome.fetch = "resolved"
  /\ outcome.ok
  /\ outcome.json = "parsed"
  /\ "reply" \in DOMAIN outcome.data

\* C7: a send issued on conversation c with the trimmed message m whose call
\* succeeds with reply r leaves the conversation equal to c followed by the
\* user turn with text m and the assistant (role "model") turn with text r
C7_SuccessfulSend ==
  [][/\ SendStep =>
          /\ sendCall'.conversation = conversation
          /\ sendCall'.userMessage = Trim(message)
     /\ (SettleStep /\ WellFormedSuccess(lastOp'.outcome)) =>
          conversation' = sendCall.conversation
                            \o <<[role |-> "user", text |-> sendCall.userMessage],
                                 [role |-> "model", text |-> lastOp'.outcome.data.reply]>>
    ]_vars

C7_HelloAnsweredHi ==
  /\ Idle
  /\ lastOp.op = "sendSettle"
  /\ conversation = <<[role |-> "user", text |-> <<"H", "e", "l", "l", "o">>],
                      [role |-> "model", text |-> <<"H", "i", "!">>]>>

\* the block of document i in the format "=== Document i: <name> ===\n<text>"
C8_DocumentBlock(i, doc) ==
  <<"=", "=", "=", " ", "D", "o", "c", "u", "m", "e", "n", "t", " ">>
    \o NumberToString(i) \o <<":", " ">> \o doc.filename
    \o <<" ", "=", "=", "=", "\n">> \o doc.text

\* the block of document i in the format "\n=== PDF i: <name> ===\n<text>"
C8_PdfBlock(i, doc) ==
  <<"\n", "=", "=", "=", " ", "P", "D", "F", " ">>
    \o NumberToString(i) \o <<":", " ">> \o doc.filename
    \o <<" ", "=", "=", "=", "\n">> \o doc.text

\* blocks 1..k in store order, separated by "\n\n"
RECURSIVE C8_Blocks(_, _, _)
C8_Blocks(Block(_, _), docs, k) ==
  IF k = 1 THEN Block(1, docs[1])
  ELSE C8_Blocks(Block, docs, k - 1) \o <<"\n", "\n">> \o Block(k, docs[k])

\* C8 as stated: the document context is the "=== Document i: <name> ==="
\* blocks joined by a blank line, with nothing before the first header
C8_DocumentBlockFormat ==
  (Awaiting /\ Len(sendCall.uploadedPDFs) > 0) =>
    sendCall.request.pdf_context =
      C8_Blocks(C8_DocumentBlock, sendCall.uploadedPDFs, Len(sendCall.uploadedPDFs))

\* C8: for a non-empty document list the document context of the request is
\* the blocks "\n=== PDF i: <name_i> ===\n<text_i>" for i = 1..k in store
\* order, joined by "\n\n"
C8_PdfBlockFormat ==
  (Awaiting /\ Len(sendCall.uploadedPDFs) > 0) =>
    sendCall.request.pdf_context =
      C8_Blocks(C8_PdfBlock, sendCall.uploadedPDFs, Len(sendCall.uploadedPDFs))

C8_TwoDocumentsSent ==
  /\ Awaiting
  /\ Len(sendCall.uploadedPDFs) = 2
  /\ sendCall.uploadedPDFs[1].filename = <<"A", ".", "p", "d", "f">>
  /\ sendCall.uploadedPDFs[2].filename = <<"B", ".", "p", "d", "f">>
  /\ sendCall.request.pdf_context =
       <<"\n", "=", "=", "=", " ", "P", "D", "F", " ", "1", ":", " ",
         "A", ".", "p", "d", "f", " ", "=", "=", "=", "\n",
         "t", "e", "x", "t", "A", "\n", "\n",
         "\n", "=", "=", "=", " ", "P", "D", "F", " ", "2", ":", " ",
         "B", ".", "p", "d", "f", " ", "=", "=", "=", "\n",
         "t", "e", "x", "t", "B">>

\* the first 0-based position of sub in s
FirstIndex(s, sub) ==
  CHOOSE i \in 0..(Len(s) - Len(sub)) :
    /\ SubSeq(s, i + 1, i + Len(sub)) = sub
    /\ \A j \in 0..(i - 1) : SubSeq(s, j + 1, j + Len(sub)) # sub

\* position, name and full text of document i as they appear in the context
C9_Label(i, doc) ==
  NumberToString(i) \o <<":", " ">> \o doc.filename
    \o <<" ", "=", "=", "=", "\n">> \o doc.text

\* every document's 1-based position, name and full text, in store order
C9_ContainsAll(context, docs) ==
  /\ \A i \in 1..Len(docs) : Includes(context, C9_Label(i, docs[i]))
  /\ \A i \in 1..(Len(docs) - 1) :
       FirstIndex(context, C9_Label(i, docs[i]))
         < FirstIndex(context, C9_Label(i + 1, docs[i + 1]))

\* C9 as stated: the document-context field holds every document's name and
\* text in store order, and the request has no such field when the document
\* list is empty
C9_ContextAbsentWhenEmpty ==
  Awaiting =>
    IF Len(sendCall.uploadedPDFs) = 0
    THEN "pdf_context" \notin DOMAIN sendCall.request
    ELSE C9_ContainsAll(sendCall.request.pdf_context, sendCall.uploadedPDFs)

\* C9: the pdf_context field holds every document's 1-based position, name
\* and full text in store order when the list is not empty, and is present
\* with the value null (never a string) when the list is empty
C9_ContextNullWhenEmpty ==
  Awaiting =>
    /\ "pdf_context" \in DOMAIN sendCall.request
    /\ IF Len(sendCall.uploadedPDFs) = 0
       THEN sendCall.request.pdf_context = JSNull
       ELSE C9_ContainsAll(sendCall.request.pdf_context, sendCall.uploadedPDFs)

C9_SentWithoutDocuments ==
  /\ Awaiting
  /\ Len(sendCall.uploadedPDFs) = 0
  /\ sendCall.request.pdf_context = JSNull

\* C10: every outcome of the completion call other than a well-formed success
\* ends in a turn with role error whose text includes the cause
C10_EveryFailureYieldsErrorTurn ==
  [][(SettleStep /\ ~WellFormedSuccess(lastOp'.outcome)) =>
       /\ Last(conversation').role = "error"
       /\ Includes(Last(conversation').text, FailureDetail(lastOp'.outcome))
    ]_vars

\* C11: at most one completion request is in flight: a send is accepted only
\* while loading is false and nothing is in flight, loading is true from then
\* until the result turn is appended, so that no send starts while loading
C11_OneRequestInFlight ==
  /\ [](inFlight <= 1)
  /\ [](loading => inFlight = 1)
  /\ [][nSends' # nSends =>
          (~loading /\ inFlight = 0 /\ loading' /\ inFlight' = 1)]_vars
  /\ [][(inFlight = 1 /\ inFlight' = 0) =>
          (Len(log') = Len(log) + 1 /\ Last(log').role # "user")]_vars

\* a second send is in flight after the first one appended its result turn
C11_SecondSendInFlight ==
  /\ Awaiting
  /\ loading
  /\ inFlight = 1
  /\ nSends = 2
  /\ Len(log) >= 3
  /\ log[2].role # "user"

ResultRoles == {"model", "error"}

\* C12: loading is true in exactly the states where a request is in flight;
\* when the call settles (success, non-success status or a throw) exactly one
\* result turn is appended after the send's user turn and loading becomes
\* false; and when every call settles, every accepted send returns to Idle
C12_SendReturnsToIdle ==
  /\ [](loading <=> inFlight = 1)
  /\ [](loading <=> sendCall.state = "awaiting")
  /\ [][SettleStep =>
          /\ ~loading'
          /\ inFlight' = 0
          /\ Len(conversation') = Len(sendCall.newConversation) + 1
          /\ SubSeq(conversation', 1, Len(sendCall.newConversation))
               = sendCall.newConversation
          /\ Last(conversation').role \in ResultRoles
          /\ log' = Append(log, Last(conversation'))]_vars
  /\ (loading ~> (Idle /\ ~loading))

\* a send whose call threw has returned to Idle
C12_ThrownSendBackToIdle ==
  /\ Idle
  /\ ~loading
  /\ lastOp.op = "sendSettle"
  /\ lastOp.outcome.fetch = "rejected"
  /\ Last(conversation).role = "error"

IsPrefix(s, t) == Len(s) <= Len(t) /\ SubSeq(t, 1, Len(s)) = s

\* C13: the conversation is append-only: across every step that is not
\* clearConversation the previous sequence is a prefix of the new one (same
\* roles and texts in the same order), and clearConversation removes every turn
C13_AppendOnly ==
  /\ [][clearConversation \/ IsPrefix(conversation, conversation')]_vars
  /\ [][clearConversation => conversation' = <<>>]_vars

\* turns were appended to a conversation of several turns after a clear
C13_GrownAfterClear ==
  /\ Idle
  /\ cleared
  /\ nSends = 2
  /\ Len(conversation) >= 4

\* what a reader of a turn sees: its role and its text
TurnView(turn) == [role |-> turn.role, text |-> Get(turn, "text")]

TurnViews(turns) == [i \in 1..Len(turns) |-> TurnView(turns[i])]

\* C14: whenever the mounted conversation is not empty, the entry under the
\* conversation key is the JSON text of the whole in-memory sequence, and
\* loading that entry gives the same turns (role and text) in the same order
C14_PersistedConversationIsCurrent ==
  (phase = "mounted" /\ Len(conversation) > 0) =>
     /\ lsConversation = StringifyConversation(conversation)
     /\ Len(LoadEntry(lsConversation, <<>>)) = Len(conversation)
     /\ TurnViews(LoadEntry(lsConversation, <<>>)) = TurnViews(conversation)

\* a reply was appended to a stored conversation and persisted with it
C14_ReplyPersisted ==
  /\ Idle
  /\ nSends = 1
  /\ Len(conversation) = 4
  /\ Last(conversation).role = "model"
  /\ lsConversation.kind = "json"
  /\ Len(lsConversation.val) = 4

\* C15: in every mounted state (so after every upload, removePDF and
\* clearAllPDFs, the save effect included) the entry under the document key is
\* the JSON text of the in-memory sequence, the key being absent exactly when
\* the sequence is empty
C15_PersistedDocumentsAreCurrent ==
  phase = "mounted" =>
    /\ LoadEntry(lsPDFs, <<>>) = uploadedPDFs
    /\ lsPDFs = IF uploadedPDFs = <<>> THEN Absent ELSE StringifyPDFs(uploadedPDFs)

\* an upload was added to the stored documents and persisted with them
C15_UploadPersisted ==
  /\ phase = "mounted"
  /\ lastOp.op = "uploadSettle"
  /\ Len(uploadedPDFs) = 3
  /\ lsPDFs.kind = "json"
  /\ Len(lsPDFs.val) = 3

\* the sequence a load reads from an entry; anything else reads as empty
Persisted(entry) == LoadEntry(entry, <<>>)

\* C16: opening the page is idempotent for both stores: loading again from
\* what the mount left in storage gives the stores the mount gave, and the
\* mount leaves under each key the sequence that was persisted before it
C16_MountKeepsPersisted ==
  [][phase = "unmounted" =>
       LET again == MountResult(lsConversation', lsPDFs')
       IN /\ again.conversation = conversation'
          /\ again.uploadedPDFs = uploadedPDFs'
          /\ Persisted(lsConversation') = Persisted(lsConversation)
          /\ Persisted(lsPDFs') = Persisted(lsPDFs)]_vars

\* C17: opening the page, whatever is stored under the two keys, gives a
\* rendered component whose stores hold the persisted sequences, or the empty
\* sequence when the key is absent or its value is not a stored sequence
C17_LoadToleratesAnyValue ==
  [][phase = "unmounted" =>
       /\ phase' = "mounted"
       /\ conversation' = Persisted(lsConversation)
       /\ uploadedPDFs' = Persisted(lsPDFs)]_vars

\* C18: clearConversation leaves the conversation empty and its key absent,
\* clearAllPDFs leaves the document list empty and its key absent, the save
\* effects that follow included; and the conversation key stays absent for as
\* long as the conversation stays empty
C18_ClearRemovesKey ==
  /\ [][clearConversation =>
          (conversation' = <<>> /\ lsConversation' = Absent)]_vars
  /\ [][clearAllPDFs => (uploadedPDFs' = <<>> /\ lsPDFs' = Absent)]_vars
  /\ []((phase = "mounted" /\ cleared /\ conversation = <<>>) =>
          lsConversation = Absent)

\* both stores were cleared while a send that had captured two documents was
\* in flight
C18_BothCleared ==
  /\ Awaiting
  /\ Len(sendCall.uploadedPDFs) = 2
  /\ cleared
  /\ conversation = <<>>
  /\ lsConversation = Absent
  /\ uploadedPDFs = <<>>
  /\ lsPDFs = Absent

\* C19: the conversation_history of the request a send issues is the whole
\* conversation as it was just before the user turn was appended, every turn
\* with its role and text in the original order; the new message travels in
\* the message field and is not the last history entry
C19_HistoryIsPriorConversation ==
  [][SendStep =>
       LET request == sendCall'.request
           history == request.conversation_history
       IN /\ Len(history) = Len(conversation)
          /\ TurnViews(history) = TurnViews(conversation)
          /\ conversation' = Append(conversation, UserTurn(request.message))
          /\ Len(history) = Len(conversation') - 1]_vars

\* a second send carried the four turns before it as its history
C19_FourTurnHistorySent ==
  /\ Awaiting
  /\ nSends = 2
  /\ ~cleared
  /\ Len(sendCall.request.conversation_history) = 4
  /\ Len(conversation) = 5

\* C20: removePDF(index) with an index inside the list removes exactly the
\* document at that position and keeps the others in their order; with an
\* index outside the list it changes neither the list nor its stored entry;
\* in both cases nothing is raised and nothing else changes
C20_RemoveByIndex ==
  [][lastOp'.op = "removePDF" =>
       LET index == lastOp'.index
           n == Len(uploadedPDFs)
       IN /\ IF index \in 0..(n - 1)
             THEN /\ Len(uploadedPDFs') = n - 1
                  /\ uploadedPDFs' = SubSeq(uploadedPDFs, 1, index)
                                       \o SubSeq(uploadedPDFs, index + 2, n)
             ELSE /\ uploadedPDFs' = uploadedPDFs
                  /\ lsPDFs' = lsPDFs
          /\ phase' = "mounted"
          /\ lastOp'.alert = NoAlert
          /\ UNCHANGED <<uploading, uploads, conversation, lsConversation>>]_vars

\* removePDF was called with index 2 on the two stored documents, an index of
\* no document of the list, and both are still there
C20_StaleIndexIgnored ==
  /\ phase = "mounted"
  /\ nBatches = 0
  /\ lastOp.op = "removePDF"
  /\ lastOp.index = 2
  /\ uploadedPDFs = <<DocA, DocB>>
  /\ lsPDFs = StringifyPDFs(<<DocA, DocB>>)

RECURSIVE SumLen(_)
SumLen(batches) ==
  IF batches = <<>> THEN 0 ELSE Len(Head(batches)) + SumLen(Tail(batches))

\* the number of files whose upload is still to settle, over all batches
PendingFiles == SumLen(uploads)

IsPDF(file) == file.type = "application/pdf"

C22_OneRequestPerSend ==
  /\ [][phase = "mounted" =>
          nRequests' - nRequests =
            CountRole(log', "user") - CountRole(log, "user")]_vars
  /\ [][SendStep => (nRequests' = nRequests + 1 /\ lastOp'.requests = 1)]_vars
  /\ [][SettleStep => (nRequests' = nRequests /\ lastOp'.requests = 0)]_vars
  /\ [](nRequests = nSends)

\* two sends, the first of which threw, have issued two requests in all
C22_TwoRequestsAfterThrow ==
  /\ Awaiting
  /\ nRequests = 2
  /\ ~cleared
  /\ Len(log) >= 3
  /\ log[Len(log) - 1].role = "error"
  /\ SubSeq(log[Len(log) - 1].text, 1, 14)
       = <<"R","e","q","u","e","s","t"," ","f","a","i","l","e","d">>

\* C23: in every state where a /chat request is in flight and
\* clearConversation has not run since its send started, the conversation is
\* not empty and its last turn is the user turn carrying the request's message
C23_UserTurnVisibleWhileAwaiting ==
  (Awaiting /\ ~clearedInFlight) =>
     /\ conversation = sendCall.newConversation
     /\ Len(conversation) > 0
     /\ Last(conversation) = UserTurn(sendCall.request.message)

\* a send started after a clearConversation is in flight and its user turn is
\* the only turn
C23_FirstTurnAfterClear ==
  /\ Awaiting
  /\ cleared
  /\ ~clearedInFlight
  /\ conversation = <<UserTurn(S_Hello)>>

\* C24: a send, the settling of its request and clearConversation leave the
\* document list and its stored entry as they were; an upload batch, the
\* settling of an upload, removePDF and clearAllPDFs leave the conversation,
\* its stored entry and the loading flag as they were; with requests of the
\* other side suspended or not
C24_StoresAreDisjoint ==
  /\ [][(SendStep \/ SettleStep \/ clearConversation) =>
          UNCHANGED <<uploadedPDFs, lsPDFs>>]_vars
  /\ [][(UploadAttempt \/ lastOp'.op \in {"uploadSettle", "removePDF"}
           \/ clearAllPDFs) =>
          UNCHANGED <<conversation, lsConversation, loading>>]_vars

\* an upload has appended a third document while a /chat request that took
\* two documents with it is suspended and the conversation has its user turn
C24_UploadedWhileAwaiting ==
  /\ Awaiting
  /\ loading
  /\ lastOp.op = "uploadSettle"
  /\ Len(sendCall.uploadedPDFs) = 2
  /\ Len(uploadedPDFs) = 3
  /\ conversation = <<UserTurn(S_Why)>>
  /\ lsConversation = StringifyConversation(conversation)

\* C25: in every state where an upload batch is still in progress the
\* uploading flag is true
C25_UploadingWhileBatchInProgress ==
  (phase = "mounted" /\ uploads # <<>>) => uploading

\* C26: handleFileUpload counts all the files offered, PDF or not, before it
\* filters by type: when the document count plus that number exceeds 5 the
\* batch is rejected with the maximum alert; a batch within the limit and
\* without a PDF file is rejected with the PDF alert; both issue no upload and
\* leave the documents, their stored entry, the running batches and the
\* uploading flag as they were; any other batch starts uploading its PDF files
C26_CountCheckBeforeFilter ==
  [][UploadAttempt =>
       IF Len(uploadedPDFs) + lastOp'.n > 5
       THEN /\ lastOp'.alert = AlertMax
            /\ lastOp'.requests = 0
            /\ UNCHANGED <<uploadedPDFs, lsPDFs, uploads, uploading>>
       ELSE IF lastOp'.pdfs = 0
       THEN /\ lastOp'.alert = AlertOnlyPDF
            /\ lastOp'.requests = 0
            /\ UNCHANGED <<uploadedPDFs, lsPDFs, uploads, uploading>>
       ELSE /\ lastOp'.alert = NoAlert
            /\ lastOp'.requests = 1
            /\ uploading'
            /\ Len(uploads') = Len(uploads) + 1
            /\ Len(Last(uploads')) = lastOp'.pdfs
            /\ UNCHANGED <<uploadedPDFs, lsPDFs>>]_vars

\* with four documents stored, a batch of one PDF file and one other file was
\* rejected with the maximum alert, though its PDF file alone would have fitted
C26_RejectedForNonPDF ==
  /\ phase = "mounted"
  /\ Len(uploadedPDFs) = 4
  /\ lastOp.alert = AlertMax
  /\ lastOp.n = 2
  /\ lastOp.pdfs = 1
  /\ uploads = <<>>
  /\ ~uploading

\* a message of whitespace only, the empty one included
Blank(s) == \A i \in 1..Len(s) : IsSpace(s[i])

\* t is s without the whitespace at its two ends
IsTrimmed(t, s) ==
  /\ t # <<>>
  /\ ~IsSpace(t[1])
  /\ ~IsSpace(t[Len(t)])
  /\ \E i \in 0..(Len(s) - Len(t)) :
       /\ SubSeq(s, i + 1, i + Len(t)) = t
       /\ Blank(SubSeq(s, 1, i))
       /\ Blank(SubSeq(s, i + Len(t) + 1, Len(s)))

\* C27: send called with a blank message (empty or whitespace only) appends no
\* turn, issues no request and leaves the loading flag, the conversation and
\* its stored entry as they were; called with any other message it appends a
\* user turn whose text is the trimmed message and issues one request whose
\* message field is that same text
C27_BlankSendIsNoOp ==
  [][lastOp'.op \in {"sendClick", "handleKeyPress"} =>
       IF Blank(message)
       THEN /\ lastOp'.requests = 0
            /\ UNCHANGED <<conversation, lsConversation, loading, sendCall,
                           log, nRequests, inFlight, message>>
       ELSE /\ lastOp'.requests = 1
            /\ nRequests' = nRequests + 1
            /\ Len(conversation') = Len(conversation) + 1
            /\ Last(conversation').role = "user"
            /\ IsTrimmed(Last(conversation').text, message)
            /\ sendCall'.request.message = Last(conversation').text]_vars

\* Enter was pressed on a message of one space after an answered send, and
\* nothing was sent
C27_BlankEnterIgnored ==
  /\ Idle
  /\ ~loading
  /\ message = <<" ">>
  /\ lastOp = Op("handleKeyPress", 0, NoAlert, 0)
  /\ nRequests = 1
  /\ conversation = log
  /\ Len(conversation) = 2
  /\ lsConversation = StringifyConversation(conversation)

====
